---- MODULE Spec2Model ----
(***************************************************************************)
(* A model of pychemia.core.Structure and pychemia.core.Composition.        *)
(*                                                                         *)
(* Python values are represented as follows.                               *)
(*   None / a value v      : the sequences << >> and << v >>  (None, Some)  *)
(*   a float                : the rational << n, d >> it is, in lowest      *)
(*                            terms, d a power of two.  Sums, differences,  *)
(*                            products and x % 1.0 of the floats that occur *)
(*                            are floats again; a division is modelled only *)
(*                            where its quotient is one (see RatDivInt)     *)
(*   an N x 3 numpy array   : a sequence of 3-tuples of rationals           *)
(*   the 3 x 3 cell         : a 3-tuple of 3-tuples of integers (rows are   *)
(*                            the lattice vectors)                          *)
(*   a dict                 : a function whose DOMAIN is the set of keys;   *)
(*                            the dict of a Composition also has its hash   *)
(*                            table, which orders the keys                  *)
(*   a raised exception     : the field "raised" of the object record, ""   *)
(*                            when the call returned normally               *)
(***************************************************************************)
EXTENDS Integers, Sequences, FiniteSets, TLC

VARIABLES
    natom, symbols, positions, reduced, cell, periodicity,   \* Structure fields
    _lattice, _composition,                                  \* Structure caches
    raised,        \* the exception the last call on the Structure raised, or ""
    op,            \* the name of the last call on the Structure
    kwargs,        \* the keyword arguments the Structure is constructed with
    added,         \* set by an add_atom that did not raise: natom and the
                   \* composition before it; marked deleted by a del_atom of
                   \* the added atom that follows at once, kept by
                   \* get_composition, None after any other call
    rc,            \* the local variables of one random_cell call
    trials,        \* what the collaborators returned in each trial of that call
    c_arg,         \* the argument one Composition was constructed with
    c_self,        \* that Composition, None before its construction
    c_call,        \* the last call on it, with its arguments
    c_ret,         \* what that call returned
    original,      \* a Structure that copy() is called on, None when unused
    copy_struct,   \* the Structure copy() returned, None before the call
    heap           \* the python lists the symbols fields of these two refer to

svars == <<natom, symbols, positions, reduced, cell, periodicity,
           _lattice, _composition, raised, op, added, kwargs>>
rvars == <<rc, trials>>
cvars == <<c_arg, c_self, c_call, c_ret>>
kvars == <<original, copy_struct, heap>>
vars == <<svars, rvars, cvars, kvars>>

----------------------------------------------------------------------------
(* Bounds of the model *)

\* add_atom is not called once a coordinate array holds this many rows
MaxRows == 2
\* add_atom, which always increments natom, is not called once natom is this
MaxNatom == 3
\* relocate_to_cm is not called when a coordinate it computes has a denominator
\* above this
MaxDenominator == 40
\* random_cell is called with maxtrial in 0 .. MaxTrial
MaxTrial == 3
\* the volumes Lattice.volume reports for an adjusted lattice are 1 .. MaxVolume
MaxVolume == 3
\* a formula string is made of at most MaxPieces pieces (names, digits, others)
MaxPieces == 3
\* the counts of a dict a Composition is constructed from are at most MaxCount
MaxCount == 4

----------------------------------------------------------------------------
(* Python's None, and values that may be None *)

None == << >>
Some(v) == << v >>
Get(o) == o[1]

\* self.natom = None
NatomNone == -1

Range(s) == { s[i] : i \in DOMAIN s }

----------------------------------------------------------------------------
(* Exact arithmetic standing for the floating point arithmetic *)

Abs(x) == IF x < 0 THEN -x ELSE x

\* fractions.gcd
RECURSIVE _gcd(_, _)
_gcd(a, b) == IF b = 0 THEN a ELSE _gcd(b, a % Abs(b))

\* the rational n/d in lowest terms with a positive denominator
Rat(n, d) ==
    LET s == IF d < 0 THEN -1 ELSE 1
        g == _gcd(Abs(n), Abs(d))
    IN  << (s * n) \div g, (s * d) \div g >>

Zero == Rat(0, 1)
RatAdd(x, y) == Rat(x[1] * y[2] + y[1] * x[2], x[2] * y[2])
RatSub(x, y) == Rat(x[1] * y[2] - y[1] * x[2], x[2] * y[2])
RatMulInt(x, k) == Rat(x[1] * k, x[2])
\* a rational that is a float: its denominator is a power of two
IsFloat(x) == \E e \in 0 .. 30 : x[2] = 2 ^ e
\* stands for the quotient of a division that floating point rounds: a double
\* that is none of the rationals of the model
Rounded == << 0, 0 >>
\* x / k for a float x and an int k: the quotient when it is a float, which is
\* what the division then returns
RatDivInt(x, k) ==
    LET q == Rat(x[1], x[2] * k)
    IN  IF IsFloat(q) THEN q ELSE Rounded
RatLt(x, y) == x[1] * y[2] < y[1] * x[2]
\* x %= 1.0 : the result has the sign of the divisor, so it lies in [0, 1)
RatMod1(x) == Rat(x[1] % x[2], x[2])

Vec(a, b, c) == << a, b, c >>
VecSub(u, v) == [ i \in 1..3 |-> RatSub(u[i], v[i]) ]
VecAdd(u, v) == [ i \in 1..3 |-> RatAdd(u[i], v[i]) ]
VecScale(u, k) == [ i \in 1..3 |-> RatMulInt(u[i], k) ]

\* numpy.dot(v, M) for a row vector v of rationals and an integer matrix M
VecMat(v, M) ==
    [ j \in 1..3 |->
        RatAdd(RatAdd(RatMulInt(v[1], M[1][j]), RatMulInt(v[2], M[2][j])),
               RatMulInt(v[3], M[3][j])) ]

\* numpy.dot(M, v) for an integer matrix M and a column vector v of rationals
MatVec(M, v) ==
    [ i \in 1..3 |->
        RatAdd(RatAdd(RatMulInt(v[1], M[i][1]), RatMulInt(v[2], M[i][2])),
               RatMulInt(v[3], M[i][3])) ]

\* numpy.dot of two integer 3 x 3 matrices
MatMul(A, B) ==
    [ i \in 1..3 |-> [ j \in 1..3 |->
        A[i][1] * B[1][j] + A[i][2] * B[2][j] + A[i][3] * B[3][j] ] ]

Cyc(i) == ((i - 1) % 3) + 1

\* the signed cofactor of entry (a, b) of a 3 x 3 matrix
Cofactor(M, a, b) ==
    M[Cyc(a + 1)][Cyc(b + 1)] * M[Cyc(a + 2)][Cyc(b + 2)]
  - M[Cyc(a + 1)][Cyc(b + 2)] * M[Cyc(a + 2)][Cyc(b + 1)]

\* numpy.linalg.det
Det(M) == M[1][1] * Cofactor(M, 1, 1) + M[1][2] * Cofactor(M, 1, 2)
        + M[1][3] * Cofactor(M, 1, 3)

\* one column of numpy.linalg.solve(cell.T, positions.T): the r with r . M = p
SolveRow(M, p) ==
    [ j \in 1..3 |->
        RatDivInt(
            RatAdd(RatAdd(RatMulInt(p[1], Cofactor(M, j, 1)),
                          RatMulInt(p[2], Cofactor(M, j, 2))),
                   RatMulInt(p[3], Cofactor(M, j, 3))),
            Det(M)) ]

----------------------------------------------------------------------------
(* Collaborators outside the two modelled files *)

\* pychemia.utils.periodic.atomic_symbols, restricted to the species used here
atomic_symbols == { "H", "C", "O", "Co", "Uuo" }

\* pychemia.utils.periodic.mass, in atomic mass units rounded to integers
mass(name) == IF name = "H" THEN 1 ELSE IF name = "C" THEN 12 ELSE 16

\* Lattice(cell): the lattice handle built from a cell; no periodicity is
\* passed to it, and a Lattice is then periodic in its 3 directions
Lattice(c) == [ cell |-> c, periodic_dimensions |-> 3 ]

----------------------------------------------------------------------------
(* Inputs of the calls *)

Half == Rat(1, 2)
\* one point inside every cell used here, one outside them on two axes
CoordInputs == { Vec(Half, Zero, Zero), Vec(Rat(5, 2), Rat(-1, 2), Zero) }
NameInputs == { "H", "O", "Xx" }
OptionInputs == { "cartesian", "reduced", "spherical" }

\* set_cell arguments, tagged with the shape numpy gives them
CellInputs ==
    { [ shape |-> "()",    val |-> << <<2>> >> ],
      [ shape |-> "(3,)",  val |-> << <<2, 2, -2>> >> ],
      [ shape |-> "(3,3)", val |-> << <<2, 2, 0>>, <<0, 2, 0>>, <<0, 0, 2>> >> ] }

\* set_periodicity arguments, tagged with their python type
PeriodicityInputs ==
    { [ type |-> "bool", val |-> << TRUE >> ],
      [ type |-> "bool", val |-> << FALSE >> ],
      [ type |-> "list", val |-> << TRUE, FALSE, FALSE >> ] }

\* sort_byaxis arguments
AxisInputs == { "x", "w" }

\* rotation angles about x, y and z
RotationInputs == { << 0, 0, 0 >> }

----------------------------------------------------------------------------
(* class Structure: the object is a record of its fields *)

Raise(self, e) == [ self EXCEPT !.raised = e ]
Ok(self) == self.raised = ""

\* Structure.is_periodic
is_periodic(self) == \E i \in DOMAIN Get(self.periodicity) : Get(self.periodicity)[i]

\* Lattice.periodic_dimensions of a lattice handle
periodic_dimensions(lattice) == lattice.periodic_dimensions

\* Structure.get_cell: the object afterwards (the handle is self._lattice)
get_cell(self) ==
    IF self._lattice = None
    THEN [ self EXCEPT !._lattice = Some(Lattice(self.cell)) ]
    ELSE self

\* Structure.is_crystal: the value
is_crystal(self) ==
    IF ~ is_periodic(self) THEN FALSE
    ELSE periodic_dimensions(Get(get_cell(self)._lattice)) = 3

\* Structure.is_crystal: the object afterwards (the property calls get_cell)
is_crystal_self(self) == IF ~ is_periodic(self) THEN self ELSE get_cell(self)

\* Structure.set_cell
set_cell(self, c) ==
    LET v == c.val[1]
        m == IF c.shape = "()"
             THEN << <<v[1], 0, 0>>, <<0, v[1], 0>>, <<0, 0, v[1]>> >>
             ELSE IF c.shape = "(3,)"
             THEN << <<v[1], 0, 0>>, <<0, v[2], 0>>, <<0, 0, v[3]>> >>
             ELSE c.val
    IN  [ self EXCEPT !.cell = Some(m), !._lattice = None ]

\* Structure.set_periodicity
set_periodicity(self, p) ==
    IF p.type = "bool"
    THEN [ self EXCEPT !.periodicity = Some(<< p.val[1], p.val[1], p.val[1] >>) ]
    ELSE IF p.type = "list" /\ Len(p.val) = 1
    THEN [ self EXCEPT !.periodicity = Some(<< p.val[1], p.val[1], p.val[1] >>) ]
    ELSE [ self EXCEPT !.periodicity = Some(p.val) ]

\* Structure.set_positions
set_positions(self, rows) == [ self EXCEPT !.positions = Some(rows) ]

\* Structure.set_reduced
set_reduced(self, rows) == [ self EXCEPT !.reduced = Some(rows) ]

\* Structure.positions2reduced: the solved coordinates are stored first and
\* wrapped column by column, so a periodicity of fewer than 3 flags raises
\* after the columns before the missing flag were wrapped; numpy.linalg.solve
\* raises ValueError for the empty array of shape (0,)
positions2reduced(self) ==
    IF self.cell = None \/ self.positions = None THEN Raise(self, "AttributeError")
    ELSE IF Len(Get(self.positions)) = 0 THEN Raise(self, "ValueError")
    ELSE IF Det(Get(self.cell)) = 0 THEN Raise(self, "LinAlgError")
    ELSE LET P == Get(self.positions)
             per == Get(self.periodicity)
             solved == [ k \in DOMAIN P |-> SolveRow(Get(self.cell), P[k]) ]
             wrapped == [ k \in DOMAIN P |-> [ i \in 1..3 |->
                            IF i <= Len(per) /\ per[i] THEN RatMod1(solved[k][i])
                            ELSE solved[k][i] ] ]
         IN  IF Len(per) < 3
             THEN Raise([ self EXCEPT !.reduced = Some(wrapped) ], "IndexError")
             ELSE [ self EXCEPT !.reduced = Some(wrapped) ]

\* Structure.reduced2positions
reduced2positions(self) ==
    IF self.cell = None \/ self.reduced = None THEN Raise(self, "TypeError")
    ELSE IF Len(Get(self.reduced)) = 0 THEN Raise(self, "ValueError")
    ELSE LET R == Get(self.reduced)
         IN  [ self EXCEPT !.positions =
                 Some([ k \in DOMAIN R |-> VecMat(R[k], Get(self.cell)) ]) ]

\* the dict get_composition builds from the list of symbols
species_count(syms) ==
    [ x \in Range(syms) |-> Cardinality({ i \in DOMAIN syms : syms[i] = x }) ]

\* Composition(value) for a dict: _set_composition, the exception or ""
Composition_raised(value) ==
    IF \A x \in DOMAIN value : x \in atomic_symbols THEN "" ELSE "AssertionError"

\* Structure.get_composition: the object afterwards (the value is
\* self._composition when nothing was raised)
get_composition(self) ==
    IF self._composition = None
    THEN LET species == species_count(Get(self.symbols))
         IN  IF Composition_raised(species) # ""
             THEN Raise(self, Composition_raised(species))
             ELSE [ self EXCEPT !._composition = Some(species) ]
    ELSE self

\* add_atom that appends the symbol before it looks at the option
add_atom_appends_first(self, name, coordinates, option) ==
    IF name \notin atomic_symbols THEN Raise(self, "AssertionError")
    ELSE LET s1 == [ self EXCEPT !.symbols = Some(Append(Get(@), name)),
                                 !.natom = @ + 1,
                                 !._composition = None ]
         IN  IF option \notin { "cartesian", "reduced" }
             THEN Raise(s1, "AssertionError")
             ELSE IF option = "cartesian"
             THEN IF s1.positions = None THEN Raise(s1, "ValueError")
                  ELSE positions2reduced(
                         [ s1 EXCEPT !.positions = Some(Append(Get(@), coordinates)) ])
             ELSE IF s1.reduced = None THEN Raise(s1, "ValueError")
                  ELSE reduced2positions(
                         [ s1 EXCEPT !.reduced = Some(Append(Get(@), coordinates)) ])

\* Structure.add_atom
add_atom(self, name, coordinates, option) ==
    IF name \notin atomic_symbols THEN Raise(self, "AssertionError")
    ELSE IF option \notin { "cartesian", "reduced" } THEN Raise(self, "AssertionError")
    ELSE LET s1 == [ self EXCEPT !.symbols = Some(Append(Get(@), name)),
                                 !.natom = @ + 1,
                                 !._composition = None ]
         IN  IF option = "cartesian"
             THEN IF s1.natom = 0
                  THEN positions2reduced(
                         [ s1 EXCEPT !.positions = Some(<< coordinates >>) ])
                  ELSE IF s1.positions = None THEN Raise(s1, "ValueError")
                  ELSE positions2reduced(
                         [ s1 EXCEPT !.positions = Some(Append(Get(@), coordinates)) ])
             ELSE IF s1.natom = 0
                  THEN reduced2positions(
                         [ s1 EXCEPT !.reduced = Some(<< coordinates >>) ])
                  ELSE IF s1.reduced = None THEN Raise(s1, "ValueError")
                  ELSE reduced2positions(
                         [ s1 EXCEPT !.reduced = Some(Append(Get(@), coordinates)) ])

\* list.pop(index), with python's negative indices: the list afterwards
pop(list, index) ==
    LET k == IF index < 0 THEN Len(list) + index + 1 ELSE index + 1
    IN  [ i \in 1 .. (Len(list) - 1) |-> IF i < k THEN list[i] ELSE list[i + 1] ]

\* numpy.delete(arr, index, 0) raises IndexError for an index outside the rows
\* of arr; of None it makes a 0-d array and returns a copy of it
delete_raises(arr, index) ==
    arr # None /\ ~ (- Len(Get(arr)) <= index /\ index < Len(Get(arr)))

\* Structure.del_atom: the results of both numpy.delete calls are dropped
del_atom(self, index) ==
    IF ~ (Abs(index) < self.natom) THEN Raise(self, "AssertionError")
    ELSE IF ~ (- Len(Get(self.symbols)) <= index /\ index < Len(Get(self.symbols)))
    THEN Raise(self, "IndexError")
    ELSE IF delete_raises(self.positions, index) \/ delete_raises(self.reduced, index)
    THEN Raise([ self EXCEPT !.symbols = Some(pop(Get(@), index)) ], "IndexError")
    ELSE [ self EXCEPT !.symbols = Some(pop(Get(@), index)),
                       !.natom = @ - 1,
                       !._composition = None ]

\* Structure.center_mass with list_of_atoms = None
center_mass(self) ==
    IF self.natom = 0 THEN Vec(Zero, Zero, Zero)
    ELSE LET syms == Get(self.symbols)
             P == Get(self.positions)
             total_mass[i \in 0 .. self.natom] ==
                 IF i = 0 THEN 0 ELSE total_mass[i - 1] + mass(syms[i])
             center_of_mass[i \in 0 .. self.natom] ==
                 IF i = 0 THEN Vec(Zero, Zero, Zero)
                 ELSE VecAdd(center_of_mass[i - 1], VecScale(P[i], mass(syms[i])))
         IN  [ k \in 1..3 |->
                 RatDivInt(center_of_mass[self.natom][k], total_mass[self.natom]) ]

\* no coordinate of the vector is the quotient of a rounded division
Exact(v) == \A k \in 1..3 : v[k] # Rounded

\* relocate_to_cm gets as far as the subtraction of the center of mass
relocate_to_cm_divides(self) ==
    /\ self.natom <= Len(Get(self.positions))
    /\ self.natom <= Len(Get(self.symbols))
    /\ Len(Get(self.positions)) > 0

\* Structure.relocate_to_cm with list_of_atoms = None
relocate_to_cm(self) ==
    IF self.natom > Len(Get(self.positions)) \/ self.natom > Len(Get(self.symbols))
    THEN Raise(self, "IndexError")
    ELSE IF Len(Get(self.positions)) = 0 THEN Raise(self, "ValueError")
    ELSE LET cm == center_mass(self)
             P == Get(self.positions)
         IN  [ self EXCEPT !.positions = Some([ k \in DOMAIN P |-> VecSub(P[k], cm) ]) ]

\* math.cos and math.sin at the angle 0, the only angle whose cosine and sine
\* are exact in floating point
cos[t \in { 0 }] == 1
sin[t \in { 0 }] == 0

\* Structure.rotation: the rows are rotated in place one by one, so the rows
\* that exist are rotated before positions[i] raises for a missing one
rotation(self, tx, ty, tz) ==
    LET rotationx == << <<1, 0, 0>>, <<0, cos[tx], -sin[tx]>>, <<0, sin[tx], cos[tx]>> >>
        rotationy == << <<cos[ty], 0, sin[ty]>>, <<0, 1, 0>>, <<-sin[ty], 0, cos[ty]>> >>
        rotationz == << <<cos[tz], -sin[tz], 0>>, <<sin[tz], cos[tz], 0>>, <<0, 0, 1>> >>
        rot == MatMul(MatMul(rotationx, rotationy), rotationz)
    IN  IF self.positions = None
        THEN IF self.natom > 0 THEN Raise(self, "TypeError") ELSE self
        ELSE LET P == Get(self.positions)
                 rotated == [ k \in DOMAIN P |->
                                IF k <= self.natom THEN MatVec(rot, P[k]) ELSE P[k] ]
             IN  IF self.natom > Len(P)
                 THEN Raise([ self EXCEPT !.positions = Some(rotated) ], "IndexError")
                 ELSE [ self EXCEPT !.positions = Some(rotated) ]

\* numpy.argsort of column index of the rows P: the permutation that lists the
\* rows by ascending coordinate, rows of equal coordinate in their order
argsort(P, index) ==
    CHOOSE order \in [ DOMAIN P -> DOMAIN P ] :
        \A i, j \in DOMAIN P :
            i < j => \/ RatLt(P[order[i]][index], P[order[j]][index])
                     \/ /\ P[order[i]][index] = P[order[j]][index]
                        /\ order[i] < order[j]

\* Structure.sort_byaxis: positions is reordered, and then self.symbols[order]
\* raises, because a list is not indexed by an array (numpy 1.12 and later)
sort_byaxis(self, axis) ==
    IF axis \notin { "x", "y", "z" } THEN self
    ELSE IF self.positions = None THEN Raise(self, "TypeError")
    ELSE IF Len(Get(self.positions)) = 0 THEN Raise(self, "IndexError")
    ELSE LET index == IF axis = "x" THEN 1 ELSE IF axis = "y" THEN 2 ELSE 3
             P == Get(self.positions)
             order == argsort(P, index)
         IN  Raise([ self EXCEPT !.positions = Some([ k \in DOMAIN P |-> P[order[k]] ]) ],
                   "TypeError")

\* the inner loops of adjust_reduced on one entry: it becomes the value of
\* [0.5, 0.25, 0.75, 0.125] it is nearer to than 1E-4
snap(x) ==
    LET near(v) == RatLt(RatSub(v, x), Rat(1, 10000)) /\ RatLt(RatSub(x, v), Rat(1, 10000))
    IN  IF near(Rat(1, 2)) THEN Rat(1, 2)
        ELSE IF near(Rat(1, 4)) THEN Rat(1, 4)
        ELSE IF near(Rat(3, 4)) THEN Rat(3, 4)
        ELSE IF near(Rat(1, 8)) THEN Rat(1, 8)
        ELSE x

\* Structure.adjust_reduced: the first natom rows of reduced are adjusted in
\* place, then reduced2positions is called
adjust_reduced(self) ==
    IF self.natom <= 0 THEN reduced2positions(self)
    ELSE IF self.reduced = None THEN Raise(self, "TypeError")
    ELSE LET R == Get(self.reduced)
             adjusted == [ k \in DOMAIN R |->
                             IF k <= self.natom THEN [ j \in 1..3 |-> snap(R[k][j]) ]
                             ELSE R[k] ]
         IN  IF self.natom > Len(R)
             THEN Raise([ self EXCEPT !.reduced = Some(adjusted) ], "IndexError")
             ELSE reduced2positions([ self EXCEPT !.reduced = Some(adjusted) ])

\* len() of a field that is not None
len(o) == Len(Get(o))

\* Structure._autocomplete, one operator per field it completes
autocomplete_natom(self) ==
    IF self.natom = NatomNone
    THEN [ self EXCEPT !.natom =
             IF self.positions # None THEN Len(Get(self.positions))
             ELSE IF self.reduced # None THEN Len(Get(self.reduced))
             ELSE IF self.symbols # None THEN Len(Get(self.symbols))
             ELSE 0 ]
    ELSE self

autocomplete_symbols(self) ==
    IF self.symbols = None /\ self.natom = 0
    THEN [ self EXCEPT !.symbols = Some(<< >>) ] ELSE self

autocomplete_periodicity(self) ==
    IF self.periodicity = None
    THEN set_periodicity(self, [ type |-> "bool", val |-> << TRUE >> ])
    ELSE self

autocomplete_cell(self) ==
    IF self.cell = None /\ is_periodic(self)
    THEN set_cell(self, [ shape |-> "()", val |-> << <<1>> >> ])
    ELSE self

autocomplete_positions(self) ==
    IF self.positions = None
    THEN IF self.reduced # None THEN reduced2positions(self)
         ELSE IF self.natom = 0 THEN [ self EXCEPT !.positions = Some(<< >>) ]
         ELSE IF self.natom = 1
         THEN [ self EXCEPT !.positions = Some(<< Vec(Zero, Zero, Zero) >>) ]
         ELSE Raise(self, "ValueError")
    ELSE self

autocomplete_reduced(self) ==
    IF ~ Ok(self) THEN self
    ELSE IF self.reduced = None /\ is_crystal(self)
    THEN IF self.positions # None /\ self.natom > 0
         THEN positions2reduced(is_crystal_self(self))
         ELSE [ is_crystal_self(self) EXCEPT !.reduced = Some(<< >>) ]
    ELSE IF self.reduced = None THEN is_crystal_self(self)
    ELSE self

_autocomplete(self) ==
    autocomplete_reduced(autocomplete_positions(autocomplete_cell(
        autocomplete_periodicity(autocomplete_symbols(autocomplete_natom(self))))))

\* Structure._check raises TypeError at the len() of a field that is None
_check_raises(self) ==
    \/ self.symbols = None
    \/ self.positions = None
    \/ (is_crystal(self) /\ self.reduced = None)

\* Structure._check: the value when it does not raise (mag_moments are not
\* modelled)
_check(self) ==
    /\ len(self.symbols) = self.natom
    /\ len(self.positions) = self.natom
    /\ ~ (is_crystal(self) /\ len(self.reduced) # self.natom)

\* Structure.__init__: the fields taken from the keyword arguments kw, where an
\* absent keyword is None (NatomNone for natom)
init_fields(kw) ==
    [ natom |-> kw.natom, symbols |-> kw.symbols, positions |-> None,
      reduced |-> None, cell |-> None, periodicity |-> None,
      _lattice |-> None, _composition |-> None, raised |-> "" ]

init_periodicity(self, kw) ==
    IF kw.periodicity # None THEN set_periodicity(self, Get(kw.periodicity)) ELSE self

init_cell(self, kw) ==
    IF kw.cell # None THEN set_cell(self, Get(kw.cell)) ELSE self

init_positions(self, kw) ==
    IF kw.positions # None THEN set_positions(self, Get(kw.positions)) ELSE self

init_reduced(self, kw) ==
    IF kw.reduced # None THEN set_reduced(self, Get(kw.reduced)) ELSE self

\* the call of _check that ends __init__: len(None) raises, is_crystal builds
\* the lattice handle, and an inconsistency is only printed
init_check(self) ==
    IF ~ Ok(self) THEN self
    ELSE IF self.symbols = None \/ self.positions = None
    THEN Raise(self, "TypeError")
    ELSE IF _check_raises(self) THEN Raise(is_crystal_self(self), "TypeError")
    ELSE is_crystal_self(self)

\* Structure.__init__: the object built from the keyword arguments
__init__(kw) ==
    init_check(_autocomplete(
        init_reduced(init_positions(init_cell(init_periodicity(
            init_fields(kw), kw), kw), kw), kw)))

----------------------------------------------------------------------------
(* The keyword arguments of the constructions the model starts from *)

NoKw == [ natom |-> NatomNone, symbols |-> None, positions |-> None,
          reduced |-> None, cell |-> None, periodicity |-> None ]

InitInputs ==
    { NoKw,
      [ NoKw EXCEPT !.symbols = Some(<< "H" >>) ],
      [ NoKw EXCEPT !.symbols = Some(<< "H", "O" >>),
                    !.positions = Some(<< Vec(Zero, Zero, Zero), Vec(Half, Half, Zero) >>),
                    !.cell = Some([ shape |-> "()", val |-> << <<2>> >> ]) ],
      [ NoKw EXCEPT !.symbols = Some(<< "O" >>),
                    !.reduced = Some(<< Vec(Half, Half, Half) >>),
                    !.cell = Some([ shape |-> "(3,3)",
                                    val |-> << <<2, 2, 0>>, <<0, 2, 0>>, <<0, 0, 2>> >> ]),
                    !.periodicity = Some([ type |-> "bool", val |-> << TRUE >> ]) ],
      [ NoKw EXCEPT !.symbols = Some(<< "H" >>),
                    !.positions = Some(<< Vec(Half, Zero, Zero) >>),
                    !.cell = Some([ shape |-> "()", val |-> << <<2>> >> ]),
                    !.periodicity = Some([ type |-> "list",
                                           val |-> << TRUE, FALSE, FALSE >> ]) ],
      [ NoKw EXCEPT !.symbols = Some(<< "H" >>),
                    !.positions = Some(<< Vec(Half, Zero, Zero) >>),
                    !.cell = Some([ shape |-> "()", val |-> << <<2>> >> ]),
                    !.periodicity = Some([ type |-> "bool", val |-> << FALSE >> ]) ] }

\* N x 3 arrays passed to set_positions and set_reduced
ArrayInputs(n) == { [ i \in 1 .. n |-> c ] : c \in CoordInputs }

----------------------------------------------------------------------------
(* The Structure as a state machine: one action per public call *)

Self == [ natom |-> natom, symbols |-> symbols, positions |-> positions,
          reduced |-> reduced, cell |-> cell, periodicity |-> periodicity,
          _lattice |-> _lattice, _composition |-> _composition, raised |-> "" ]

Assign(s) ==
    /\ natom' = s.natom
    /\ symbols' = s.symbols
    /\ positions' = s.positions
    /\ reduced' = s.reduced
    /\ cell' = s.cell
    /\ periodicity' = s.periodicity
    /\ _lattice' = s._lattice
    /\ _composition' = s._composition
    /\ raised' = s.raised
    /\ kwargs' = kwargs

Call(name) == name

NoCall == Call("__init__")

rows(o) == IF o = None THEN 0 ELSE Len(Get(o))

InGrid(o) ==
    o # None =>
      \A k \in DOMAIN Get(o) : \A i \in 1..3 : Get(o)[k][i][2] <= MaxDenominator

InitAs(s) ==
    /\ natom = s.natom
    /\ symbols = s.symbols
    /\ positions = s.positions
    /\ reduced = s.reduced
    /\ cell = s.cell
    /\ periodicity = s.periodicity
    /\ _lattice = s._lattice
    /\ _composition = s._composition
    /\ raised = ""
    /\ op = NoCall
    /\ added = None

\* the Structure after a construction that did not raise
InitStructure ==
    \E kw \in InitInputs : Ok(__init__(kw)) /\ InitAs(__init__(kw)) /\ kwargs = kw

AddAtom ==
    /\ rows(positions) < MaxRows /\ rows(reduced) < MaxRows /\ natom < MaxNatom
    /\ \E name \in NameInputs, coordinates \in CoordInputs, option \in OptionInputs :
          LET s == add_atom(Self, name, coordinates, option)
          IN  /\ Assign(s)
              /\ op' = Call("add_atom")
              /\ added' = IF Ok(s)
                          THEN Some([ natom |-> natom,
                                      composition |-> get_composition(Self)._composition,
                                      cached |-> _composition # None,
                                      index |-> natom,
                                      deleted |-> FALSE ])
                          ELSE None

DelAtom ==
    /\ \E index \in -MaxRows .. MaxRows :
          LET s == del_atom(Self, index)
          IN  /\ Assign(s)
              /\ op' = Call("del_atom")
              /\ added' = IF /\ added # None
                             /\ op = "add_atom"
                             /\ Ok(s)
                             /\ index \in { Get(added).index, -1 }
                          THEN Some([ Get(added) EXCEPT !.deleted = TRUE ])
                          ELSE None

GetComposition ==
    /\ Assign(get_composition(Self))
    /\ op' = Call("get_composition")
    /\ added' = added

GetCell ==
    /\ Assign(get_cell(Self))
    /\ op' = Call("get_cell")
    /\ added' = None

SetCell ==
    /\ \E c \in CellInputs : Assign(set_cell(Self, c))
    /\ op' = Call("set_cell")
    /\ added' = None

SetPeriodicity ==
    /\ \E p \in PeriodicityInputs : Assign(set_periodicity(Self, p))
    /\ op' = Call("set_periodicity")
    /\ added' = None

SetPositions ==
    /\ natom >= 1 /\ natom <= MaxRows
    /\ \E a \in ArrayInputs(natom) : Assign(set_positions(Self, a))
    /\ op' = Call("set_positions")
    /\ added' = None

SetReduced ==
    /\ natom >= 1 /\ natom <= MaxRows
    /\ \E a \in ArrayInputs(natom) : Assign(set_reduced(Self, a))
    /\ op' = Call("set_reduced")
    /\ added' = None

Rotation ==
    /\ \E t \in RotationInputs : Assign(rotation(Self, t[1], t[2], t[3]))
    /\ op' = Call("rotation")
    /\ added' = None

\* relocate_to_cm is called where the division by the total mass is not
\* rounded
RelocateToCm ==
    /\ relocate_to_cm_divides(Self) => Exact(center_mass(Self))
    /\ InGrid(relocate_to_cm(Self).positions)
    /\ Assign(relocate_to_cm(Self))
    /\ op' = Call("relocate_to_cm")
    /\ added' = None

SortByaxis ==
    /\ \E axis \in AxisInputs : Assign(sort_byaxis(Self, axis))
    /\ op' = Call("sort_byaxis")
    /\ added' = None

AdjustReduced ==
    /\ Assign(adjust_reduced(Self))
    /\ op' = Call("adjust_reduced")
    /\ added' = None

Positions2Reduced ==
    /\ positions # None
    /\ InGrid(positions2reduced(Self).reduced)
    /\ Assign(positions2reduced(Self))
    /\ op' = Call("positions2reduced")
    /\ added' = None

Reduced2Positions ==
    /\ Assign(reduced2positions(Self))
    /\ op' = Call("reduced2positions")
    /\ added' = None

\* the keyword arguments of a construction without positions and reduced
NatomInputs == { NatomNone } \cup (0 .. MaxRows)
SymbolsInputs ==
    { None, Some(<< >>), Some(<< "H" >>), Some(<< "H", "O" >>) }
ConstructInputs ==
    { [ NoKw EXCEPT !.natom = n, !.symbols = y, !.cell = c, !.periodicity = p ] :
        n \in NatomInputs, y \in SymbolsInputs,
        c \in { None } \cup { Some(x) : x \in CellInputs },
        p \in { None } \cup { Some(x) : x \in PeriodicityInputs } }

\* the object at the head of __init__: every field is None
NotConstructed ==
    /\ kwargs \in ConstructInputs
    /\ natom = NatomNone
    /\ symbols = None
    /\ positions = None
    /\ reduced = None
    /\ cell = None
    /\ periodicity = None
    /\ _lattice = None
    /\ _composition = None
    /\ raised = ""
    /\ op = Call("__new__")
    /\ added = None

\* Structure(**kwargs)
Construct ==
    /\ op = Call("__new__")
    /\ Assign(__init__(kwargs))
    /\ op' = NoCall
    /\ added' = None

----------------------------------------------------------------------------
(* The variables of the Composition, idle in the specifications of Structure *)

NoRet == [ formula |-> << >>, dict |-> << >>, int |-> 0 ]
NoArgs == [ name |-> "", sortby |-> "", reduced |-> FALSE ]

KIdle == original = None /\ copy_struct = None /\ heap = << >>

CIdle ==
    /\ c_arg = None
    /\ c_self = None
    /\ c_call = NoArgs
    /\ c_ret = NoRet

----------------------------------------------------------------------------
(* Structure.random_cell: one call, one action per step of its trial loop.   *)
(* The collaborators (Lattice.random_cell, numpy.random, the adjustment of   *)
(* the lattice, Lattice.minimal_distance, Lattice.volume) are outside the    *)
(* modelled files: what they return in a trial is an input of that trial, a  *)
(* record [ volume, distance ] with the volume of the adjusted lattice and   *)
(* the minimum-image distance of every pair of atoms in it.                  *)

\* sys.float_info.max
FloatMax == 1000000

\* pychemia.utils.periodic.covalent_radius, in units of 0.01 Angstrom
covalent_radius(name) == IF name = "H" THEN 31 ELSE IF name = "C" THEN 76 ELSE 66

\* Composition.symbols of the compositions random_cell is called with
CompositionInputs == { << "H" >>, << "H", "H" >>, << "H", "O" >> }
MethodInputs == { "scaling", "stretching", "rescaling" }
\* minimum-image distances, in units of 0.01 Angstrom
DistanceInputs == { 50, 100 }

Pairs(n) == { p \in (1 .. n) \X (1 .. n) : p[1] < p[2] }

TrialInputs(n) ==
    [ volume : 1 .. MaxVolume, distance : [ Pairs(n) -> DistanceInputs ] ]

\* the pairwise check of a trial: test, in lines 505-514 and 565-574
pairs_test(syms, trial) ==
    \A p \in Pairs(Len(syms)) :
        ~ (trial.distance[p] <
             covalent_radius(syms[p[1]]) + covalent_radius(syms[p[2]]))

\* Structure(symbols=symbols, reduced=rpos, cell=lattice.cell, periodicity=True),
\* with the trial's record standing for rpos and the cell
StructureOf(syms, trial) == [ symbols |-> syms, geometry |-> trial ]

\* random_cell up to the choice of the method: the local variables
random_cell_enter(syms, method, maxtrial) ==
    [ symbols |-> syms, natom |-> Len(syms), method |-> method,
      maxtrial |-> maxtrial, ntrial |-> 0,
      best_volume |-> FloatMax, best_structure |-> None, best_trial |-> 0,
      pc |-> "loop", returned |-> FALSE, result |-> None, raised |-> "" ]

\* the scaling method recording a trial without the pairwise check
scaling_accept_unchecked(l, trial) ==
    IF trial.volume < l.best_volume
    THEN [ l EXCEPT !.best_volume = trial.volume,
                    !.best_trial = l.ntrial,
                    !.best_structure = Some(StructureOf(l.symbols, trial)),
                    !.ntrial = @ + 1 ]
    ELSE [ l EXCEPT !.ntrial = @ + 1 ]

\* the stretching method replacing the best structure on a tie of volumes
stretching_accept_on_tie(l, trial) ==
    IF trial.volume <= l.best_volume /\ pairs_test(l.symbols, trial)
    THEN [ l EXCEPT !.best_volume = trial.volume,
                    !.best_trial = l.ntrial,
                    !.best_structure = Some(StructureOf(l.symbols, trial)),
                    !.ntrial = @ + 1 ]
    ELSE [ l EXCEPT !.ntrial = @ + 1 ]

\* the end of one trial of the scaling method
scaling_accept(l, trial) ==
    IF trial.volume < l.best_volume /\ pairs_test(l.symbols, trial)
    THEN [ l EXCEPT !.best_volume = trial.volume,
                    !.best_trial = l.ntrial,
                    !.best_structure = Some(StructureOf(l.symbols, trial)),
                    !.ntrial = @ + 1 ]
    ELSE [ l EXCEPT !.ntrial = @ + 1 ]

\* the end of one trial of the stretching method
stretching_accept(l, trial) ==
    IF trial.volume < l.best_volume /\ pairs_test(l.symbols, trial)
    THEN [ l EXCEPT !.best_volume = trial.volume,
                    !.best_trial = l.ntrial,
                    !.best_structure = Some(StructureOf(l.symbols, trial)),
                    !.ntrial = @ + 1 ]
    ELSE [ l EXCEPT !.ntrial = @ + 1 ]

\* random_cell after the trial loop: rpos = best_structure.reduced raises when
\* best_structure is None; a method that is neither name skips to the return
random_cell_leave(l) ==
    IF l.method \in { "scaling", "stretching" } /\ l.best_structure = None
    THEN [ l EXCEPT !.pc = "done", !.raised = "AttributeError" ]
    ELSE [ l EXCEPT !.pc = "done", !.returned = TRUE, !.result = l.best_structure ]

RcCall ==
    /\ rc = None
    /\ \E syms \in CompositionInputs, method \in MethodInputs,
          maxtrial \in 0 .. MaxTrial :
          rc' = Some(random_cell_enter(syms, method, maxtrial))
    /\ trials' = << >>

RcTrialScaling ==
    /\ rc # None
    /\ Get(rc).pc = "loop" /\ Get(rc).method = "scaling"
    /\ Get(rc).ntrial < Get(rc).maxtrial
    /\ \E trial \in TrialInputs(Get(rc).natom) :
          /\ rc' = Some(scaling_accept(Get(rc), trial))
          /\ trials' = Append(trials, trial)

RcTrialStretching ==
    /\ rc # None
    /\ Get(rc).pc = "loop" /\ Get(rc).method = "stretching"
    /\ Get(rc).ntrial < Get(rc).maxtrial
    /\ \E trial \in TrialInputs(Get(rc).natom) :
          /\ rc' = Some(stretching_accept(Get(rc), trial))
          /\ trials' = Append(trials, trial)

RcLeave ==
    /\ rc # None
    /\ Get(rc).pc = "loop"
    /\ Get(rc).method \in { "scaling", "stretching" }
          => Get(rc).ntrial = Get(rc).maxtrial
    /\ rc' = Some(random_cell_leave(Get(rc)))
    /\ UNCHANGED trials

RcIdle == rc = None /\ trials = << >>

Init == InitStructure /\ RcIdle /\ CIdle /\ KIdle

\* any interleaving of add_atom, del_atom and get_composition on one Structure
Next ==
    \/ (AddAtom /\ UNCHANGED << rvars, cvars, kvars >>)
    \/ (DelAtom /\ UNCHANGED << rvars, cvars, kvars >>)
    \/ (GetComposition /\ UNCHANGED << rvars, cvars, kvars >>)

Spec == Init /\ [][Next]_vars

\* any interleaving of the calls that change a coordinate array or the cell
NextCoords ==
    \/ (AddAtom /\ UNCHANGED << rvars, cvars, kvars >>)
    \/ (SetPositions /\ UNCHANGED << rvars, cvars, kvars >>)
    \/ (SetReduced /\ UNCHANGED << rvars, cvars, kvars >>)
    \/ (SetCell /\ UNCHANGED << rvars, cvars, kvars >>)
    \/ (Rotation /\ UNCHANGED << rvars, cvars, kvars >>)
    \/ (RelocateToCm /\ UNCHANGED << rvars, cvars, kvars >>)
    \/ (SortByaxis /\ UNCHANGED << rvars, cvars, kvars >>)
    \/ (AdjustReduced /\ UNCHANGED << rvars, cvars, kvars >>)

SpecCoords == Init /\ [][NextCoords]_vars

\* any interleaving of get_cell with the setters of the cell and the periodicity
NextLattice ==
    \/ (GetCell /\ UNCHANGED << rvars, cvars, kvars >>)
    \/ (SetCell /\ UNCHANGED << rvars, cvars, kvars >>)
    \/ (SetPeriodicity /\ UNCHANGED << rvars, cvars, kvars >>)

SpecLattice == Init /\ [][NextLattice]_vars

\* positions2reduced and reduced2positions called in any order on a Structure
\* whose positions and periodicity are set in between
NextTransform ==
    \/ (SetPositions /\ UNCHANGED << rvars, cvars, kvars >>)
    \/ (SetPeriodicity /\ UNCHANGED << rvars, cvars, kvars >>)
    \/ (Positions2Reduced /\ UNCHANGED << rvars, cvars, kvars >>)
    \/ (Reduced2Positions /\ UNCHANGED << rvars, cvars, kvars >>)

SpecTransform == Init /\ [][NextTransform]_vars

\* set_periodicity arguments of every length from 1 to 4, lists and tuples
PeriodicityArgs ==
    PeriodicityInputs \cup
    { [ type |-> "list",  val |-> << FALSE >> ],
      [ type |-> "tuple", val |-> << TRUE >> ],
      [ type |-> "list",  val |-> << TRUE, FALSE >> ],
      [ type |-> "tuple", val |-> << FALSE, TRUE, TRUE >> ],
      [ type |-> "list",  val |-> << TRUE, TRUE, FALSE, FALSE >> ] }

SetPeriodicityArgs ==
    /\ \E p \in PeriodicityArgs : Assign(set_periodicity(Self, p))
    /\ op' = Call("set_periodicity")
    /\ added' = None

\* set_periodicity with arguments of any length, between set_cell and get_cell
NextPeriodicity ==
    \/ (SetPeriodicityArgs /\ UNCHANGED << rvars, cvars, kvars >>)
    \/ (SetCell /\ UNCHANGED << rvars, cvars, kvars >>)
    \/ (GetCell /\ UNCHANGED << rvars, cvars, kvars >>)

SpecPeriodicity == Init /\ [][NextPeriodicity]_vars

\* one construction from keyword arguments
InitConstruct == NotConstructed /\ RcIdle /\ CIdle /\ KIdle

NextConstruct == Construct /\ UNCHANGED << rvars, cvars, kvars >>

SpecConstruct == InitConstruct /\ [][NextConstruct]_vars

\* one call of random_cell; the Structure of the other specifications is idle
InitRandomCell ==
    /\ InitAs(__init__(NoKw))
    /\ kwargs = NoKw
    /\ RcIdle
    /\ CIdle
    /\ KIdle

NextRandomCell ==
    \/ (RcCall /\ UNCHANGED << svars, cvars, kvars >>)
    \/ (RcTrialScaling /\ UNCHANGED << svars, cvars, kvars >>)
    \/ (RcTrialStretching /\ UNCHANGED << svars, cvars, kvars >>)
    \/ (RcLeave /\ UNCHANGED << svars, cvars, kvars >>)

SpecRandomCell == InitRandomCell /\ [][NextRandomCell]_vars

----------------------------------------------------------------------------
(* class Composition.  A python str is a sequence of one-character strings;  *)
(* a count is tagged with its python type.  A python dict is a record of    *)
(* its mapping (keys are symbols, as sequences of characters) and its hash  *)
(* table, which gives the order in which the keys are iterated.  The object *)
(* is a record with the mapping and the table of its dict _composition and  *)
(* the exception its construction raised.                                    *)

\* the characters that occur, in the order of their code points
Alphabet == << "(", "0", "1", "2", "3", "4", "5", "6", "7", "8", "9",
               "C", "H", "O", "U", "X", "o", "u", "x" >>

ord(c) == CHOOSE i \in DOMAIN Alphabet : Alphabet[i] = c
isupper(c) == c \in { "C", "H", "O", "U", "X" }
islower(c) == c \in { "o", "u", "x" }
isdigit(c) == c \in { "0", "1", "2", "3", "4", "5", "6", "7", "8", "9" }

\* the python str of a sequence of characters
RECURSIVE join(_)
join(cs) == IF cs = << >> THEN "" ELSE cs[1] \o join(Tail(cs))

\* int(number) for a string of digits
RECURSIVE int(_)
int(number) ==
    IF number = << >> THEN 0
    ELSE int(SubSeq(number, 1, Len(number) - 1)) * 10
           + (ord(number[Len(number)]) - ord("0"))

\* str(n) for an int
RECURSIVE str(_)
str(n) ==
    IF n < 10 THEN << Alphabet[ord("0") + n] >>
    ELSE str(n \div 10) \o << Alphabet[ord("0") + (n % 10)] >>

\* the while loop of formula_parser: the digits from the 0-based position k on
RECURSIVE number_from(_, _)
number_from(chars, k) ==
    IF k < Len(chars) /\ isdigit(chars[k + 1])
    THEN << chars[k + 1] >> \o number_from(chars, k + 1)
    ELSE << >>

\* names of at most two letters
jump_at_one_letter(chars, i) ==
    IF i + 1 < Len(chars) /\ islower(chars[i + 2]) THEN 1 ELSE 0

\* the number of characters after the first that belong to the name at i
jump_at(chars, i) ==
    IF i + 1 < Len(chars) /\ islower(chars[i + 2])
    THEN IF i + 2 < Len(chars) /\ islower(chars[i + 3]) THEN 2 ELSE 1
    ELSE 0

\* hash(key) of a python 2 str on a 64-bit build, its low 30 bits
hash(key) ==
    IF join(key) = "H" THEN 626093129 ELSE IF join(key) = "Ho" THEN 443672245
    ELSE IF join(key) = "Hoo" THEN 235114377 ELSE IF join(key) = "C" THEN 1059833026
    ELSE IF join(key) = "Co" THEN 412861796 ELSE IF join(key) = "Coo" THEN 715322846
    ELSE IF join(key) = "O" THEN 448353998 ELSE IF join(key) = "Oo" THEN 486807104
    ELSE IF join(key) = "Ooo" THEN 866965290 ELSE IF join(key) = "Uuo" THEN 431915698
    ELSE 542266226

\* the hash table of an empty dict: eight slots that hold no key
EmptyTable == [ slot \in 0 .. 7 |-> None ]

\* the dict {}
EmptyDict == [ map |-> << >>, table |-> EmptyTable ]

\* the slot a key is found in or goes to: the probe sequence of the table from
\* slot i on (only the low three bits of i select a slot)
RECURSIVE lookdict(_, _, _, _)
lookdict(table, key, i, perturb) ==
    IF table[i] = None \/ table[i] = Some(key) THEN i
    ELSE lookdict(table, key, (5 * i + perturb + 1) % 8, perturb \div 32)

\* the table after key is stored
insertdict(table, key) ==
    [ table EXCEPT ![lookdict(table, key, hash(key) % 8, hash(key))] = Some(key) ]

\* the keys of a table in the order a dict iterates them: by slot, from slot on
RECURSIVE iterkeys(_, _)
iterkeys(table, slot) ==
    IF slot > 7 THEN << >>
    ELSE (IF table[slot] = None THEN << >> ELSE << Get(table[slot]) >>)
           \o iterkeys(table, slot + 1)

\* the table of dict.copy(): the keys stored anew in the order of iteration
RECURSIVE copy_table(_)
copy_table(list) ==
    IF list = << >> THEN EmptyTable
    ELSE insertdict(copy_table(SubSeq(list, 1, Len(list) - 1)), list[Len(list)])

\* dict assignment ret[key] = val
setitem(ret, key, val) ==
    [ map |-> [ x \in (DOMAIN ret.map) \cup { key } |->
                  IF x = key THEN val ELSE ret.map[x] ],
      table |-> insertdict(ret.table, key) ]

\* the for loop of formula_parser from the 0-based position i on
RECURSIVE parser_loop(_, _, _, _)
parser_loop(chars, i, jump, ret) ==
    IF i >= Len(chars) THEN ret
    ELSE IF jump > 0 THEN parser_loop(chars, i + 1, jump - 1, ret)
    ELSE IF isupper(chars[i + 1])
    THEN LET j == jump_at(chars, i)
             specie == SubSeq(chars, i + 1, i + 1 + j)
             number == number_from(chars, i + j + 1)
         IN  parser_loop(chars, i + 1, j,
                 setitem(ret, specie, IF number = << >> THEN 1 ELSE int(number)))
    ELSE parser_loop(chars, i + 1, jump, ret)

\* Composition.formula_parser: the dict of plain ints
formula_parser(chars) == parser_loop(chars, 0, 0, EmptyDict)

\* a count of a dict handed to Composition: the pair of its python type and
\* its value; Int_(n) is the int n, as formula_parser makes them
Int_(n) == << "int", n >>
type(count) == count[1]
val(count) == count[2]

\* Composition._set_composition: the object afterwards
_set_composition(d) ==
    IF \E i \in DOMAIN d.map :
          join(i) \notin atomic_symbols \/ type(d.map[i]) # "int"
    THEN [ _composition |-> << >>, _table |-> EmptyTable,
           raised |-> "AssertionError" ]
    ELSE [ _composition |-> [ i \in DOMAIN d.map |-> val(d.map[i]) ],
           _table |-> copy_table(iterkeys(d.table, 0)), raised |-> "" ]

\* the dict with the given items, stored in the order they are written
RECURSIVE dict(_)
dict(items) ==
    IF items = << >> THEN EmptyDict
    ELSE setitem(dict(SubSeq(items, 1, Len(items) - 1)),
                 items[Len(items)][1], items[Len(items)][2])

\* Composition.__init__ for an argument tagged with its python type
Composition(arg) ==
    IF arg.type = "str"
    THEN LET parsed == formula_parser(arg.val)
         IN  _set_composition([ parsed EXCEPT
                 !.map = [ i \in DOMAIN @ |-> Int_(@[i]) ] ])
    ELSE IF arg.type = "dict" THEN _set_composition(dict(arg.val))
    ELSE [ _composition |-> << >>, _table |-> EmptyTable, raised |-> "" ]

\* a < b for two python strs
RECURSIVE str_lt(_, _)
str_lt(a, b) ==
    IF b = << >> THEN FALSE
    ELSE IF a = << >> THEN TRUE
    ELSE IF a[1] # b[1] THEN ord(a[1]) < ord(b[1])
    ELSE str_lt(Tail(a), Tail(b))

\* sorted(keys): the list of a set of strs in increasing order
RECURSIVE sorted(_)
sorted(keys) ==
    IF keys = { } THEN << >>
    ELSE LET first == CHOOSE a \in keys : \A b \in keys : a = b \/ str_lt(a, b)
         IN  << first >> \o sorted(keys \ { first })

\* Composition.species: the keys in the order the dict iterates them
species(self) == iterkeys(self._table, 0)

\* Composition.values
values(self) == [ k \in DOMAIN species(self) |-> self._composition[species(self)[k]] ]

\* sum(list)
RECURSIVE sum(_)
sum(list) == IF list = << >> THEN 0 ELSE list[1] + sum(Tail(list))

\* Composition.natom
Composition_natom(self) == sum(values(self))

\* reduce(_gcd, list) for a list that is not empty
RECURSIVE reduce_gcd(_)
reduce_gcd(list) ==
    IF Len(list) = 1 THEN list[1]
    ELSE _gcd(reduce_gcd(SubSeq(list, 1, Len(list) - 1)), list[Len(list)])

\* gcd that takes every composition for reduced
gcd_always_one(self) == 1

\* Composition.gcd
gcd(self) == IF Composition_natom(self) > 0 THEN reduce_gcd(values(self)) ELSE 1

\* pychemia.utils.periodic.electronegativity, Pauling scale times 100; -1 is
\* what sorted_formula puts for None
electronegativity(specie) ==
    IF join(specie) = "H" THEN 220 ELSE IF join(specie) = "C" THEN 255
    ELSE IF join(specie) = "O" THEN 344 ELSE IF join(specie) = "Co" THEN 188
    ELSE -1

\* array(species)[argsort(electroneg)]
RECURSIVE by_electroneg(_)
by_electroneg(keys) ==
    IF keys = { } THEN << >>
    ELSE LET first == CHOOSE a \in keys :
                        \A b \in keys : electronegativity(a) <= electronegativity(b)
         IN  << first >> \o by_electroneg(keys \ { first })

\* the hill branch with hydrogen put before carbon
hill_hydrogen_first(keys) ==
    LET c == IF << "C" >> \in keys THEN << << "C" >> >> ELSE << >>
        h == IF << "H" >> \in keys THEN << << "H" >> >> ELSE << >>
    IN  h \o c \o sorted(keys \ { << "C" >>, << "H" >> })

\* the hill branch of sorted_formula
hill(keys) ==
    LET c == IF << "C" >> \in keys THEN << << "C" >> >> ELSE << >>
        h == IF << "H" >> \in keys THEN << << "H" >> >> ELSE << >>
    IN  c \o h \o sorted(keys \ { << "C" >>, << "H" >> })

\* the last loop of sorted_formula: the formula of the species from k on
RECURSIVE render(_, _, _)
render(d, sortedspecies, k) ==
    IF k > Len(sortedspecies) THEN << >>
    ELSE sortedspecies[k]
           \o (IF d[sortedspecies[k]] > 1 THEN str(d[sortedspecies[k]]) ELSE << >>)
           \o render(d, sortedspecies, k + 1)

\* sorted_formula that divides the counts of the object it is called on
sorted_formula_in_place(self, sortby, reduced_) ==
    LET comp == IF reduced_ /\ gcd(self) > 1
                THEN [ self EXCEPT !._composition =
                         [ i \in DOMAIN @ |-> @[i] \div gcd(self) ] ]
                ELSE self
        sortedspecies == IF sortby = "electroneg"
                         THEN by_electroneg(DOMAIN comp._composition)
                         ELSE IF sortby = "hill" THEN hill(DOMAIN comp._composition)
                         ELSE sorted(DOMAIN comp._composition)
    IN  [ self |-> comp, ret |-> render(comp._composition, sortedspecies, 1) ]

\* Composition.sorted_formula: the object afterwards and the str returned
sorted_formula(self, sortby, reduced_) ==
    LET comp == IF reduced_ /\ gcd(self) > 1
                THEN [ self EXCEPT !._composition =
                         [ i \in DOMAIN @ |-> @[i] \div gcd(self) ] ]
                ELSE self
        sortedspecies == IF sortby = "electroneg"
                         THEN by_electroneg(DOMAIN comp._composition)
                         ELSE IF sortby = "hill" THEN hill(DOMAIN comp._composition)
                         ELSE sorted(DOMAIN comp._composition)
    IN  [ self |-> self, ret |-> render(comp._composition, sortedspecies, 1) ]

----------------------------------------------------------------------------
(* One Composition as a state machine: its construction, then any calls *)

\* the pieces formula strings are made of: names of one and of three letters, a
\* lowercase letter (which makes the name Co, and names that are no element)
\* and digits
PieceInputs ==
    { << "H" >>, << "C" >>, << "O" >>, << "U", "u", "o" >>,
      << "o" >>, << "0" >>, << "2" >> }

RECURSIVE concat(_)
concat(pieces) ==
    IF pieces = << >> THEN << >> ELSE pieces[1] \o concat(Tail(pieces))

FormulaInputs ==
    { concat(ps) : ps \in UNION { [ 1 .. n -> PieceInputs ] : n \in 0 .. MaxPieces } }

KeyInputs == { << "H" >>, << "C" >>, << "O" >>, << "C", "o" >>, << "X", "x" >> }

\* counts of a dict: ints from -1 on, and the float 2.0
CountInputs == { Int_(n) : n \in -1 .. MaxCount } \cup { << "float", 2 >> }

\* dict arguments, each written as the list of its items (key, count): of one
\* key with any count, and of two keys with counts that are non-negative ints
DictInputs ==
    { << >> }
    \cup { << << k, c >> >> : k \in KeyInputs, c \in CountInputs }
    \cup { << << k[1], Int_(n[1]) >>, << k[2], Int_(n[2]) >> >> :
              k \in { kk \in KeyInputs \X KeyInputs : str_lt(kk[1], kk[2]) },
              n \in (0 .. MaxCount) \X (0 .. MaxCount) }

SortInputs == { "alpha", "hill", "electroneg" }

Constructed(arg) ==
    /\ c_self = None
    /\ c_self' = Some(Composition(arg))
    /\ c_arg' = Some(arg)
    /\ c_call' = [ NoArgs EXCEPT !.name = "__init__" ]
    /\ c_ret' = NoRet

CompositionStr == \E f \in FormulaInputs : Constructed([ type |-> "str", val |-> f ])

CompositionDict == \E d \in DictInputs : Constructed([ type |-> "dict", val |-> d ])

CompositionNone == Constructed([ type |-> "NoneType", val |-> << >> ])

SortedFormula ==
    /\ c_self # None /\ Get(c_self).raised = ""
    /\ \E sortby \in SortInputs, r \in BOOLEAN :
          LET res == sorted_formula(Get(c_self), sortby, r)
          IN  /\ c_self' = Some(res.self)
              /\ c_ret' = [ NoRet EXCEPT !.formula = res.ret ]
              /\ c_call' = [ name |-> "sorted_formula", sortby |-> sortby,
                             reduced |-> r ]
    /\ UNCHANGED c_arg

\* formula_parser called with the formula sorted_formula has just returned
FormulaParser ==
    /\ c_call.name = "sorted_formula"
    /\ c_ret' = [ c_ret EXCEPT !.dict = Some(formula_parser(c_ret.formula)) ]
    /\ c_call' = [ c_call EXCEPT !.name = "formula_parser" ]
    /\ UNCHANGED << c_arg, c_self >>

Gcd ==
    /\ c_self # None /\ Get(c_self).raised = ""
    /\ c_ret' = [ NoRet EXCEPT !.int = gcd(Get(c_self)) ]
    /\ c_call' = [ NoArgs EXCEPT !.name = "gcd" ]
    /\ UNCHANGED << c_arg, c_self >>

Natom ==
    /\ c_self # None /\ Get(c_self).raised = ""
    /\ c_ret' = [ NoRet EXCEPT !.int = Composition_natom(Get(c_self)) ]
    /\ c_call' = [ NoArgs EXCEPT !.name = "natom" ]
    /\ UNCHANGED << c_arg, c_self >>

InitComposition ==
    /\ InitAs(__init__(NoKw))
    /\ kwargs = NoKw
    /\ RcIdle
    /\ CIdle
    /\ KIdle

NextComposition ==
    \/ (CompositionStr /\ UNCHANGED << svars, rvars, kvars >>)
    \/ (CompositionDict /\ UNCHANGED << svars, rvars, kvars >>)
    \/ (CompositionNone /\ UNCHANGED << svars, rvars, kvars >>)
    \/ (SortedFormula /\ UNCHANGED << svars, rvars, kvars >>)
    \/ (FormulaParser /\ UNCHANGED << svars, rvars, kvars >>)
    \/ (Gcd /\ UNCHANGED << svars, rvars, kvars >>)
    \/ (Natom /\ UNCHANGED << svars, rvars, kvars >>)

SpecComposition == InitComposition /\ [][NextComposition]_vars

----------------------------------------------------------------------------
(* Structure.copy: two Structures and the lists their symbols refer to.     *)
(* A symbols field holds a reference, the index of the list in heap; the    *)
(* numpy arrays are copied by numpy.array, so they are held by value.       *)

\* the object a Structure variable refers to, as the methods see it
deref(s) == [ s EXCEPT !.symbols = Some(heap[s.symbols]), !.raised = "" ]

\* the keyword arguments copy() passes to Structure()
copy_kwargs(self) ==
    [ NoKw EXCEPT !.cell = Some([ shape |-> "(3,3)", val |-> Get(self.cell) ]),
                  !.positions = self.positions,
                  !.periodicity = Some([ type |-> "list",
                                         val |-> Get(self.periodicity) ]),
                  !.symbols = self.symbols ]

\* Structure.copy; set_cell(None) raises TypeError at npcell * eye(3)
copy(self) ==
    IF self.cell = None THEN Raise(self, "TypeError")
    ELSE __init__(copy_kwargs(self))

\* the Structure and the heap after a method has left the object as s:
\* append and pop change the list where it is, the field keeps its reference
kept(old, s) == Some([ s EXCEPT !.symbols = old.symbols ])
written(old, s) == [ heap EXCEPT ![old.symbols] = Get(s.symbols) ]

InitCopy ==
    /\ \E kw \in InitInputs :
          /\ Ok(__init__(kw))
          /\ heap = << Get(__init__(kw).symbols) >>
          /\ original = Some([ __init__(kw) EXCEPT !.symbols = Len(heap) ])
    /\ copy_struct = None
    /\ InitAs(__init__(NoKw))
    /\ kwargs = NoKw
    /\ RcIdle
    /\ CIdle

\* copy_struct = original.copy(): Structure.__init__ stores the symbols it is
\* given, so the copy refers to the list of the original
Copy ==
    /\ copy_struct = None
    /\ Ok(copy(deref(Get(original))))
    /\ copy_struct' = kept(Get(original), copy(deref(Get(original))))
    /\ UNCHANGED << original, heap >>

AddAtomCopy ==
    /\ copy_struct # None
    /\ rows(Get(copy_struct).positions) < MaxRows
    /\ rows(Get(copy_struct).reduced) < MaxRows
    /\ Get(copy_struct).natom < MaxNatom
    /\ Len(heap[Get(copy_struct).symbols]) < MaxNatom
    /\ \E name \in NameInputs, coordinates \in CoordInputs, option \in OptionInputs :
          LET s == add_atom(deref(Get(copy_struct)), name, coordinates, option)
          IN  /\ copy_struct' = kept(Get(copy_struct), s)
              /\ heap' = written(Get(copy_struct), s)
    /\ UNCHANGED original

DelAtomCopy ==
    /\ copy_struct # None
    /\ \E index \in -MaxRows .. MaxRows :
          LET s == del_atom(deref(Get(copy_struct)), index)
          IN  /\ copy_struct' = kept(Get(copy_struct), s)
              /\ heap' = written(Get(copy_struct), s)
    /\ UNCHANGED original

AddAtomOriginal ==
    /\ copy_struct # None
    /\ rows(Get(original).positions) < MaxRows
    /\ rows(Get(original).reduced) < MaxRows
    /\ Get(original).natom < MaxNatom
    /\ Len(heap[Get(original).symbols]) < MaxNatom
    /\ \E name \in NameInputs, coordinates \in CoordInputs, option \in OptionInputs :
          LET s == add_atom(deref(Get(original)), name, coordinates, option)
          IN  /\ original' = kept(Get(original), s)
              /\ heap' = written(Get(original), s)
    /\ UNCHANGED copy_struct

DelAtomOriginal ==
    /\ copy_struct # None
    /\ \E index \in -MaxRows .. MaxRows :
          LET s == del_atom(deref(Get(original)), index)
          IN  /\ original' = kept(Get(original), s)
              /\ heap' = written(Get(original), s)
    /\ UNCHANGED copy_struct

\* one copy() and then any add_atom and del_atom calls on either Structure
NextCopy ==
    \/ (Copy /\ UNCHANGED << svars, rvars, cvars >>)
    \/ (AddAtomCopy /\ UNCHANGED << svars, rvars, cvars >>)
    \/ (DelAtomCopy /\ UNCHANGED << svars, rvars, cvars >>)
    \/ (AddAtomOriginal /\ UNCHANGED << svars, rvars, cvars >>)
    \/ (DelAtomOriginal /\ UNCHANGED << svars, rvars, cvars >>)

SpecCopy == InitCopy /\ [][NextCopy]_vars

----------------------------------------------------------------------------
(* The claims *)

\* the per-species counts of a list of symbols
CountsOf(syms) ==
    [ x \in { syms[i] : i \in DOMAIN syms } |->
        Cardinality({ i \in DOMAIN syms : syms[i] = x }) ]

\* reduced . cell, row by row
ReducedTimesCell ==
    [ k \in DOMAIN Get(reduced) |-> VecMat(Get(reduced)[k], Get(cell)) ]

\* no pair of atoms of a trial is closer than the sum of its covalent radii
NoPairTooClose(syms, trial) ==
    \A i \in DOMAIN syms : \A j \in DOMAIN syms :
        i < j => trial.distance[<< i, j >>]
                   >= covalent_radius(syms[i]) + covalent_radius(syms[j])

\* C1: in a 3-way periodic Structure natom equals the lengths of symbols, of
\* positions and of reduced after every call that did not raise (del_atom
\* removes the entry from all three)
C1_LengthsAgree ==
    (raised = "" /\ is_crystal(Self))
        => /\ natom = rows(symbols) /\ symbols # None
           /\ natom = rows(positions) /\ positions # None
           /\ natom = rows(reduced) /\ reduced # None

\* C2: in a 3-way periodic Structure positions = reduced . cell after every
\* call that changes one coordinate array or the cell
C2_PositionsAgree ==
    (raised = "" /\ is_crystal(Self) /\ reduced # None /\ positions # None)
        => Get(positions) = ReducedTimesCell

\* C3: every reduced coordinate on an axis whose periodicity flag is true lies
\* in [0, 1)
C3_ReducedNormalized ==
    (raised = "" /\ reduced # None)
        => \A k \in DOMAIN Get(reduced) : \A i \in 1..3 :
              Get(periodicity)[i]
                 => /\ ~ RatLt(Get(reduced)[k][i], Zero)
                    /\ RatLt(Get(reduced)[k][i], Rat(1, 1))

\* C4: the best structure of random_cell, and so the structure it returns, is
\* the structure of the trial best_trial, and no pair of atoms of that trial
\* is closer than the sum of its covalent radii
C4_BestPassedCheck ==
    rc # None =>
        LET l == Get(rc)
        IN  /\ l.best_structure # None =>
                 /\ l.best_trial + 1 \in DOMAIN trials
                 /\ Get(l.best_structure)
                      = StructureOf(l.symbols, trials[l.best_trial + 1])
                 /\ NoPairTooClose(l.symbols, trials[l.best_trial + 1])
            /\ (l.returned /\ l.result # None) => l.result = l.best_structure

C4_Witness ==
    /\ rc # None
    /\ Get(rc).returned /\ Get(rc).result # None
    /\ \E k \in DOMAIN trials : ~ NoPairTooClose(Get(rc).symbols, trials[k])

\* the trials so far that satisfy the non-overlap constraint
PassingTrials == { k \in DOMAIN trials : NoPairTooClose(Get(rc).symbols, trials[k]) }

C5_ReturnedIsEarliestSmallest ==
    (rc # None /\ Get(rc).returned /\ Get(rc).result # None)
        => LET k0 == Get(rc).best_trial + 1
           IN  /\ k0 \in PassingTrials
               /\ Get(Get(rc).result) = StructureOf(Get(rc).symbols, trials[k0])
               /\ \A k \in PassingTrials :
                     /\ trials[k0].volume <= trials[k].volume
                     /\ trials[k].volume = trials[k0].volume => k0 <= k

C5_BestVolumeStep ==
    (rc # None /\ rc' # None) => Get(rc').best_volume <= Get(rc).best_volume

\* C5: the structure random_cell returns is that of the earliest trial among
\* the trials of smallest volume that satisfy the non-overlap constraint, and
\* best_volume never increases from one step to the next
C5_SmallestVolumeKept ==
    [] C5_ReturnedIsEarliestSmallest /\ [][C5_BestVolumeStep]_vars

C5_Witness ==
    /\ rc # None
    /\ Get(rc).returned /\ Get(rc).result # None
    /\ \E j \in PassingTrials : \E k \in PassingTrials :
          j < k /\ trials[j].volume = trials[k].volume
                /\ Get(rc).best_trial + 1 = j
    /\ \E k \in PassingTrials : trials[k].volume > trials[Get(rc).best_trial + 1].volume

\* C6: when no trial satisfied the non-overlap constraint, random_cell with a
\* method it knows raises GenerationFailedError and returns nothing
C6_ExplicitFailure ==
    (/\ rc # None
     /\ Get(rc).pc = "done"
     /\ Get(rc).method \in { "scaling", "stretching" }
     /\ PassingTrials = { })
        => ~ Get(rc).returned /\ Get(rc).raised = "GenerationFailedError"

\* C7: random_cell with a method that is neither scaling nor stretching raises
\* and returns nothing
C7_InvalidMethodRejected ==
    (/\ rc # None
     /\ Get(rc).pc = "done"
     /\ Get(rc).method \notin { "scaling", "stretching" })
        => ~ Get(rc).returned /\ Get(rc).raised # ""

\* C8: a cached composition holds the per-species counts of the current
\* symbols, and get_composition leaves exactly these counts in the cache it
\* returns
C8_CompositionNeverStale ==
    /\ _composition # None => Get(_composition) = CountsOf(Get(symbols))
    /\ (op = "get_composition" /\ raised = "")
          => _composition = Some(CountsOf(Get(symbols)))

\* C9: the call of set_cell or of set_periodicity leaves the cached lattice
\* handle not computed
C9_SettersInvalidateLattice ==
    op \in { "set_cell", "set_periodicity" } => _lattice = None

\* C10: after an add_atom that did not raise and a del_atom at the index of the
\* added atom that follows it at once, natom and the composition
\* get_composition returns are what they were before the add_atom
C10_AddDelRestores ==
    (added # None /\ Get(added).deleted)
        => /\ natom = Get(added).natom
           /\ get_composition(Self)._composition = Get(added).composition

\* the fields a failed call has to leave alone
Unchanged(self) ==
    /\ self.natom = natom
    /\ self.symbols = symbols
    /\ self.positions = positions
    /\ self.reduced = reduced
    /\ self._composition = _composition

C11_FailsExactlyOutOfRange ==
    \A index \in -(MaxRows + 1) .. (MaxRows + 1) :
        LET s == del_atom(Self, index)
        IN  /\ Ok(s) <=> Abs(index) < natom
            /\ ~ Ok(s) => Unchanged(s)
            /\ Ok(s) => s.natom = natom - 1 /\ Len(Get(s.symbols)) = Len(Get(symbols)) - 1

C11_FailedStep ==
    (op' = "del_atom" /\ raised' # "")
        => UNCHANGED << natom, symbols, positions, reduced, _composition >>

\* C11: del_atom(index) fails exactly when |index| >= natom, a del_atom that
\* failed leaves natom, symbols, positions, reduced and the cached composition
\* as they were, and for every index with |index| < natom it succeeds
C11_DelAtomContract ==
    [] C11_FailsExactlyOutOfRange /\ [][C11_FailedStep]_vars

C12_InvalidArgumentsChangeNothing ==
    \A name \in NameInputs, coordinates \in CoordInputs, option \in OptionInputs :
        (name \notin atomic_symbols \/ option \notin { "cartesian", "reduced" })
            => LET s == add_atom(Self, name, coordinates, option)
               IN  s.raised = "AssertionError" /\ Unchanged(s)

C12_FailedStep ==
    (op' = "add_atom" /\ raised' = "AssertionError")
        => UNCHANGED << natom, symbols, positions, reduced, _composition >>

\* C12: add_atom with an unrecognized symbol, or with a mode that is neither
\* cartesian nor reduced, fails and leaves natom, symbols, positions, reduced
\* and the cached composition as they were
C12_AddAtomFailsBeforeChange ==
    [] C12_InvalidArgumentsChangeNothing /\ [][C12_FailedStep]_vars

C12_Witness ==
    /\ op = "add_atom" /\ raised = "AssertionError"
    /\ natom = 1 /\ _composition # None

\* a dict with a key that is no element, or a count that is not an int or is
\* negative
InvalidDict(d) ==
    \E k \in DOMAIN d : \/ join(k) \notin atomic_symbols
                        \/ type(d[k]) # "int"
                        \/ val(d[k]) < 0

\* only recognized symbols as keys and only non-negative ints as counts
ValidCounts(d) == \A k \in DOMAIN d : join(k) \in atomic_symbols /\ d[k] >= 0

\* C13: a Composition that was constructed holds only recognized symbols and
\* only non-negative integer counts, and the construction from a dict with an
\* unrecognized key, or with a count that is negative or not an integer, fails
C13_ConstructedIsValid ==
    (c_self # None /\ Get(c_self).raised = "")
        => /\ Get(c_arg).type = "dict" => ~ InvalidDict(dict(Get(c_arg).val).map)
           /\ ValidCounts(Get(c_self)._composition)

\* the longest run of at most limit characters from the 1-based position i on
\* that all satisfy the test of one class of characters
RunOf(chars, i, limit, class) ==
    CHOOSE n \in 0 .. limit :
        /\ \A m \in 1 .. n :
              i + m - 1 <= Len(chars) /\ chars[i + m - 1] \in class
        /\ n = limit \/ i + n > Len(chars) \/ chars[i + n] \notin class

Uppers == { Alphabet[k] : k \in { j \in DOMAIN Alphabet : isupper(Alphabet[j]) } }
Lowers == { Alphabet[k] : k \in { j \in DOMAIN Alphabet : islower(Alphabet[j]) } }
Digits == { Alphabet[k] : k \in { j \in DOMAIN Alphabet : isdigit(Alphabet[j]) } }

\* the symbol token that starts at the uppercase letter at i
NameAt(chars, i) == SubSeq(chars, i, i + RunOf(chars, i + 1, 2, Lowers))

\* the count written after the token at i
CountAt(chars, i) ==
    LET start == i + Len(NameAt(chars, i))
        n == RunOf(chars, start, Len(chars), Digits)
    IN  IF n = 0 THEN 1 ELSE int(SubSeq(chars, start, start + n - 1))

TokenStarts(chars) == { i \in DOMAIN chars : chars[i] \in Uppers }

\* the mapping of every token to the count of its last occurrence
TokenCounts(chars) ==
    [ key \in { NameAt(chars, i) : i \in TokenStarts(chars) } |->
        CountAt(chars, CHOOSE i \in TokenStarts(chars) :
                          /\ NameAt(chars, i) = key
                          /\ \A j \in TokenStarts(chars) :
                                NameAt(chars, j) = key => j <= i) ]

H2O == << "H", "2", "O" >>

\* C14: formula_parser maps every symbol token (an uppercase letter and at most
\* two lowercase letters that follow it) to the integer its following digits
\* write, or to 1 without digits, the last occurrence of a symbol winning, and
\* ignores every other character; Composition('H2O') is {H: 2, O: 1}, natom 3
C14_ParserMapsTokens ==
    (c_self # None /\ Get(c_arg).type = "str")
        => /\ formula_parser(Get(c_arg).val).map = TokenCounts(Get(c_arg).val)
           /\ Get(c_self).raised = ""
                 => Get(c_self)._composition = TokenCounts(Get(c_arg).val)
           /\ Get(c_arg).val = H2O
                 => /\ Get(c_self)._composition
                         = [ k \in { << "H" >>, << "O" >> } |->
                               IF k = << "H" >> THEN 2 ELSE 1 ]
                    /\ Composition_natom(Get(c_self)) = 3
           /\ c_call.name = "natom"
                 => c_ret.int = sum(values([ Get(c_self) EXCEPT !._composition =
                                               TokenCounts(Get(c_arg).val) ]))

C14_Witness ==
    /\ c_self # None /\ Get(c_arg).type = "str"
    /\ Get(c_arg).val = H2O
    /\ c_call.name = "natom" /\ c_ret.int = 3

\* C15: formula_parser of the reduced formula sorted_formula returns for a
\* Composition made from a formula string is the count mapping of that
\* Composition with every count divided by the gcd
C15_RoundTrip ==
    (/\ c_call.name = "formula_parser" /\ c_call.reduced
     /\ Get(c_arg).type = "str")
        => Get(c_ret.dict).map
             = [ k \in DOMAIN Get(c_self)._composition |->
                   Get(c_self)._composition[k] \div gcd(Get(c_self)) ]

\* d divides every count
DividesAll(d, counts) == \A k \in DOMAIN counts : counts[k] % d = 0

\* what a species contributes to a formula: the count only when it is above 1
Chunk(name, n) == name \o (IF n > 1 THEN str(n) ELSE << >>)

\* formula lists every species of counts once, each with its chunk
Renders(formula, counts) ==
    \E p \in [ 1 .. Cardinality(DOMAIN counts) -> DOMAIN counts ] :
        /\ \A i \in DOMAIN p : \A j \in DOMAIN p : p[i] = p[j] => i = j
        /\ formula = concat([ i \in DOMAIN p |-> Chunk(p[i], counts[p[i]]) ])

\* the counts multiplied by f
Times(counts, f) == [ k \in DOMAIN counts |-> counts[k] * f ]

\* C16: gcd is the greatest common divisor of the counts (1 for an empty
\* composition); sorted_formula with reduced=True renders every count divided
\* by it, with reduced=False the counts themselves, writing a count only when
\* it is above 1; compositions whose counts differ by a common factor have the
\* same reduced formula
C16_GcdReducesFormula ==
    (c_self # None /\ Get(c_self).raised = ""
        /\ ValidCounts(Get(c_self)._composition))
        => LET counts == Get(c_self)._composition
               g == gcd(Get(c_self))
           IN  /\ counts = << >> => g = 1
               /\ (\E k \in DOMAIN counts : counts[k] > 0)
                     => /\ g >= 1 /\ DividesAll(g, counts)
                        /\ \A d \in 1 .. Composition_natom(Get(c_self)) :
                              DividesAll(d, counts) => d <= g
               /\ c_call.name = "gcd" => c_ret.int = g
               /\ c_call.name = "sorted_formula"
                     => /\ c_call.reduced
                             => Renders(c_ret.formula,
                                        [ k \in DOMAIN counts |-> counts[k] \div g ])
                        /\ ~ c_call.reduced => Renders(c_ret.formula, counts)
                        /\ c_call.reduced
                             => \A f \in 1 .. 3 :
                                   sorted_formula([ Get(c_self) EXCEPT
                                                      !._composition = Times(counts, f) ],
                                                  c_call.sortby, TRUE).ret
                                     = c_ret.formula

C16_Witness ==
    /\ c_self # None /\ Get(c_self).raised = ""
    /\ c_call.name = "sorted_formula" /\ c_call.reduced
    /\ Cardinality(DOMAIN Get(c_self)._composition) = 2
    /\ gcd(Get(c_self)) = 2
    /\ \E k \in DOMAIN Get(c_self)._composition : Get(c_self)._composition[k] = 4

C17_SameFormulaAgain ==
    (c_call.name = "sorted_formula")
        => sorted_formula(Get(c_self), c_call.sortby, c_call.reduced)
             = [ self |-> Get(c_self), ret |-> c_ret.formula ]

C17_Step ==
    (c_call'.name = "sorted_formula")
        => /\ c_self' = c_self
           /\ Composition_natom(Get(c_self')) = Composition_natom(Get(c_self))
           /\ gcd(Get(c_self')) = gcd(Get(c_self))

\* C17: sorted_formula leaves the Composition it is called on as it was (its
\* count mapping, natom and gcd), for every sort order and both values of
\* reduced, and a second call returns the same string
C17_SortedFormulaKeepsSelf ==
    [] C17_SameFormulaAgain /\ [][C17_Step]_vars

C17_Witness ==
    /\ c_call.name = "sorted_formula" /\ c_call.reduced
    /\ gcd(Get(c_self)) > 1
    /\ Cardinality(DOMAIN Get(c_self)._composition) = 2

\* the symbol tokens of a formula, in the order they are written
NamesOf(formula) ==
    LET starts == TokenStarts(formula)
        nth[n \in 0 .. Cardinality(starts)] ==
            IF n = 0 THEN 0
            ELSE CHOOSE i \in starts : i > nth[n - 1]
                    /\ \A j \in starts : j > nth[n - 1] => i <= j
    IN  [ n \in 1 .. Cardinality(starts) |-> NameAt(formula, nth[n]) ]

\* C18: with sortby='hill' sorted_formula lists C first when present, H next
\* when present, then the other species in lexicographic order; with
\* sortby='alpha' all species in lexicographic order; every species once
C18_HillAndAlphaOrder ==
    (c_call.name = "sorted_formula" /\ c_call.sortby \in { "hill", "alpha" })
        => LET names == NamesOf(c_ret.formula)
               keys == DOMAIN Get(c_self)._composition
               nC == IF c_call.sortby = "hill" /\ << "C" >> \in keys THEN 1 ELSE 0
               nH == IF c_call.sortby = "hill" /\ << "H" >> \in keys THEN 1 ELSE 0
           IN  /\ Len(names) = Cardinality(keys)
               /\ { names[i] : i \in DOMAIN names } = keys
               /\ nC = 1 => names[1] = << "C" >>
               /\ nH = 1 => names[nC + 1] = << "H" >>
               /\ \A i \in DOMAIN names : \A j \in DOMAIN names :
                     (nC + nH < i /\ i < j) => str_lt(names[i], names[j])

C18_Witness ==
    /\ c_call.name = "sorted_formula" /\ c_call.sortby = "hill"
    /\ DOMAIN Get(c_self)._composition = { << "C", "o" >>, << "H" >> }
    /\ NamesOf(c_ret.formula) = << << "H" >>, << "C", "o" >> >>

\* the number of atoms of a construction: the natom given, or else the length
\* of the symbols given, or else 0
NatomOf(kw) ==
    IF kw.natom # NatomNone THEN kw.natom
    ELSE IF kw.symbols # None THEN Len(Get(kw.symbols))
    ELSE 0

\* C19: a construction with neither positions nor reduced gives no position
\* for 0 atoms, the origin as the only position for 1 atom, and fails for more
\* than 1 atom, whether natom was given or is the length of symbols
C19_PositionsCompleted ==
    (op = NoCall /\ kwargs.positions = None /\ kwargs.reduced = None) =>
        /\ NatomOf(kwargs) = 0 => (raised = "" /\ positions = Some(<< >>))
        /\ NatomOf(kwargs) = 1 =>
              (raised = "" /\ positions = Some(<< Vec(Zero, Zero, Zero) >>))
        /\ NatomOf(kwargs) > 1 => raised # ""

\* C20: on a Structure periodic in 3 directions with a non-singular cell,
\* reduced2positions called right after positions2reduced gives back the
\* positions positions2reduced started from, wherever they lie
C20_Step ==
    ( /\ op = Call("positions2reduced") /\ raised = ""
      /\ is_crystal(Self) /\ Det(Get(cell)) # 0
      /\ op' = Call("reduced2positions") )
    => (raised' = "" /\ positions' = positions)

C20_RoundTrip == [][C20_Step]_vars

\* a sequence of exactly 3 booleans
IsTriple(o) ==
    o # None /\ Len(Get(o)) = 3 /\ \A i \in 1 .. 3 : Get(o)[i] \in BOOLEAN

\* what the claim has set_periodicity do with the argument p in the current
\* state: broadcast, store as given, or reject
C21_SetPeriodicityContract ==
    \A p \in PeriodicityArgs :
        LET s == set_periodicity(Self, p)
            b == p.val[1]
        IN  /\ (p.type = "bool" \/ (p.type = "list" /\ Len(p.val) = 1))
                  => (Ok(s) /\ s.periodicity = Some(<< b, b, b >>))
            /\ (p.type # "bool" /\ Len(p.val) = 3)
                  => (Ok(s) /\ s.periodicity = Some(p.val))
            /\ (p.type # "bool" /\ Len(p.val) \notin { 1, 3 })
                  => (~ Ok(s) /\ s.periodicity = periodicity)

\* C21: after construction and after every set_periodicity, periodicity is a
\* sequence of exactly 3 booleans: a boolean or a one-element list is
\* broadcast to the 3 axes, a sequence of 3 is stored as given, and a sequence
\* of another length is rejected and not stored
C21_PeriodicityIsTriple ==
    [] (IsTriple(periodicity) /\ C21_SetPeriodicityContract)

\* what the claim has a call on the other Structure leave alone
Observed(s) ==
    [ natom |-> deref(s).natom,
      symbols |-> Get(deref(s).symbols),
      positions |-> deref(s).positions,
      composition |-> get_composition(deref(s))._composition ]

C22_Step ==
    /\ (AddAtomCopy \/ DelAtomCopy)
          => Observed(Get(original))' = Observed(Get(original))
    /\ (AddAtomOriginal \/ DelAtomOriginal)
          => Observed(Get(copy_struct))' = Observed(Get(copy_struct))

\* C22: the Structure copy() returns is independent of the original: no
\* add_atom or del_atom on the one changes the natom, symbols, positions or
\* composition of the other
C22_CopyIsIndependent == [][C22_Step]_vars

====
